---- MODULE Spec2Model ----
(***************************************************************************)
(* A model of server.js, the OpenAI -> NVIDIA NIM proxy.                   *)
(*                                                                         *)
(* Every inbound request is one caller r.  An Express handler runs to      *)
(* completion between two awaits, so each action is one such run: the      *)
(* middleware chain and the handler up to `await axios.post`, the          *)
(* continuation after the backend's reply, and one event of the stream     *)
(* relay set up by response.data.pipe(res).                                *)
(*                                                                         *)
(* JSON values: an optional field is <<>> when absent and <<v>> when       *)
(* present.  Temperatures are in tenths (0.7 is 7).                        *)
(***************************************************************************)
EXTENDS Integers, Sequences, FiniteSets, TLC

VARIABLES
    processUp,      \* the node process is running
    MODEL_MAPPING,  \* the mapping object (const binding, mutable object)
    phase,          \* per caller: "new", "awaiting", "streaming", "done", "hung"
    req,            \* per caller: the inbound request
    nimRequest,     \* per caller: <<>> or <<the body posted to the backend>>
    calls,          \* per caller: number of axios.post calls issued
    reply,          \* per caller: <<>> or <<the backend's reply>>
    logThrew,       \* per caller: the catch block's logging threw
    resp,           \* per caller: what was written to res (status, body)
    resState,       \* per caller: "pending", "open", "ended", "closed"
    endCalls,       \* per caller: number of res.end() calls (res.json ends too)
    srcState,       \* per caller: backend stream "none", "open", "eof", "ended", "errored"
    srcBuf,         \* per caller: chunks read from the backend, not yet piped
    piped,          \* per caller: response.data is piped into res
    emitted,        \* per caller: chunks the backend emitted, in order
    received        \* per caller: chunks written to the caller, in order

vars == <<processUp, MODEL_MAPPING, phase, req, nimRequest, calls, reply, logThrew,
          resp, resState, endCalls, srcState, srcBuf, piped, emitted, received>>

reqVars == <<phase, req, nimRequest, calls, reply, logThrew, resp, resState, endCalls>>
streamVars == <<srcState, srcBuf, piped, emitted, received>>

----------------------------------------------------------------------------
(* Bounds of the model. *)

MaxChoices == 2
MaxChunks == 2

(* Program constants. *)

DEFAULT_TEMPERATURE == 7
DEFAULT_MAX_TOKENS == 2048
NOT_FOUND == 404
INTERNAL_ERROR == 500

Callers == {"c1"}
ConcurrentCallers == {"c1", "c2"}

----------------------------------------------------------------------------
(* The mapping table, lines 19-30. *)

ModelMappingLiteral ==
    [k \in {"gpt-3.5-turbo", "gpt-4", "gpt-4-turbo", "gpt-4o", "gpt-4o-mini", "o1",
            "claude-3-opus", "claude-3-sonnet", "claude-3-haiku", "gemini-pro"} |->
        CASE k = "gpt-3.5-turbo"   -> "nvidia/llama-3.1-nemotron-ultra-253b-v1"
          [] k = "gpt-4"           -> "qwen/qwen3-coder-480b-a35b-instruct"
          [] k = "gpt-4-turbo"     -> "moonshotai/kimi-k2.5"
          [] k = "gpt-4o"          -> "deepseek-ai/deepseek-v3.1"
          [] k = "gpt-4o-mini"     -> "deepseek-ai/deepseek-v3.2"
          [] k = "o1"              -> "deepseek-ai/deepseek-v3.1-terminus"
          [] k = "claude-3-opus"   -> "openai/gpt-oss-120b"
          [] k = "claude-3-sonnet" -> "openai/gpt-oss-20b"
          [] k = "claude-3-haiku"  -> "qwen/qwen3-235b-a22b"
          [] k = "gemini-pro"      -> "qwen/qwen3-next-80b-a3b-thinking"]

(* MODEL_MAPPING is an object literal: its prototype is Object.prototype, so  *)
(* a bracket lookup also finds the members every object inherits.            *)
ObjectPrototypeMembers ==
    {"constructor", "toString", "toLocaleString", "valueOf", "hasOwnProperty",
     "isPrototypeOf", "propertyIsEnumerable", "__proto__"}

(* MODEL_MAPPING[key]: <<"string", name>> for an own key, <<"inherited", key>> *)
(* (a function or object, truthy, not a string) for an inherited member, and   *)
(* <<>> (undefined) otherwise; an absent model is the key "undefined".         *)
Lookup(mapping, key) ==
    IF key = <<>> THEN <<>>
    ELSE IF key[1] \in DOMAIN mapping THEN <<"string", mapping[key[1]]>>
    ELSE IF key[1] \in ObjectPrototypeMembers THEN <<"inherited", key[1]>>
    ELSE <<>>

Truthy(v) == v # <<>> /\ ~(v[1] = "string" /\ v[2] = "")

(* Line 63: MODEL_MAPPING[model] || MODEL_MAPPING['gpt-4o'] *)
nimModel(mapping, model) ==
    IF Truthy(Lookup(mapping, model)) THEN Lookup(mapping, model)
    ELSE Lookup(mapping, <<"gpt-4o">>)

(* x || d on an optional field whose falsy value of its type is zero. *)
JsOr(x, d, zero) == IF x = <<>> \/ x[1] = zero THEN d ELSE x[1]

(* Lines 68-74. *)
BuildNimRequest(mapping, body) ==
    [model       |-> nimModel(mapping, body.model),
     messages    |-> body.messages,
     temperature |-> JsOr(body.temperature, DEFAULT_TEMPERATURE, 0),
     max_tokens  |-> JsOr(body.max_tokens, DEFAULT_MAX_TOKENS, 0),
     stream      |-> JsOr(body.stream, FALSE, FALSE)]

(* Lines 85 and 82: if (stream), stream ? 'stream' : 'json'. *)
WantsStream(body) == body.stream # <<>> /\ body.stream[1]

----------------------------------------------------------------------------
(* The buffered path's translation, lines 99-117 (id and created are clock    *)
(* readings and are left out).                                                *)

ZeroUsage == [prompt_tokens |-> 0, completion_tokens |-> 0, total_tokens |-> 0]

(* choice.message?.f *)
MessageField(choice, f) ==
    IF choice.message = <<>> THEN <<>> ELSE choice.message[1][f]

(* Lines 104-111, the map callback. *)
TranslateChoice(choice) ==
    [index         |-> choice.index,
     message       |-> [role    |-> JsOr(MessageField(choice, "role"), "assistant", ""),
                        content |-> JsOr(MessageField(choice, "content"), "", "")],
     finish_reason |-> JsOr(choice.finish_reason, "stop", "")]

(* The translation reporting the backend's model name instead of the caller's. *)
openaiResponseBackendModel(body, data) ==
    [object  |-> "chat.completion",
     model   |-> LET m == nimModel(ModelMappingLiteral, body.model)
                 IN  IF m # <<>> /\ m[1] = "string" THEN <<m[2]>> ELSE <<>>,
     choices |-> [i \in 1..Len(data.choices[1]) |-> TranslateChoice(data.choices[1][i])],
     usage   |-> IF data.usage = <<>> THEN ZeroUsage ELSE data.usage[1]]

(* Lines 99-117; data.choices is present (its absence throws at line 104). *)
openaiResponse(body, data) ==
    [object  |-> "chat.completion",
     model   |-> body.model,
     choices |-> [i \in 1..Len(data.choices[1]) |-> TranslateChoice(data.choices[1][i])],
     usage   |-> IF data.usage = <<>> THEN ZeroUsage ELSE data.usage[1]]

----------------------------------------------------------------------------
(* Responses.  kind "error" is the proxy's own error object; kind "html" is  *)
(* the page Express's default error handler writes (server.js registers no    *)
(* error-handling middleware).                                                *)

NoResponse == [status |-> 0, kind |-> "none", body |-> <<>>]

ErrorBody(message, code) ==
    [error |-> [message |-> message, type |-> "invalid_request_error", code |-> code]]

(* What axios rejects with: a reply outside 2xx carries error.response; with  *)
(* responseType 'stream' error.response.data is the unread stream object, not *)
(* the parsed payload, so it has no detail property.                          *)
AxiosError(rp, streaming) ==
    IF rp.kind = "http"
    THEN [response |-> <<[status   |-> rp.status,
                          isStream |-> streaming,
                          detail   |-> IF streaming THEN <<>> ELSE rp.detail]>>,
          message  |-> "Request failed with status code " \o ToString(rp.status)]
    ELSE [response |-> <<>>, message |-> rp.message]

(* Line 104 on a body without choices. *)
TypeErrorNoChoices ==
    [response |-> <<>>,
     message  |-> "Cannot read properties of undefined (reading 'map')"]

(* Lines 135 and 139: error.response?.status || 500 *)
ErrorStatus(error) ==
    IF error.response = <<>> \/ error.response[1].status = 0
    THEN INTERNAL_ERROR ELSE error.response[1].status

(* Line 137: error.response?.data?.detail || error.message || 'Internal server error' *)
ErrorMessage(error) ==
    JsOr(IF error.response = <<>> THEN <<>> ELSE error.response[1].detail,
         JsOr(<<error.message>>, "Internal server error", ""), "")

(* Lines 135-141. *)
CatchResponse(error) ==
    [status |-> ErrorStatus(error), kind |-> "error",
     body   |-> ErrorBody(ErrorMessage(error), ErrorStatus(error))]

(* Line 127: JSON.stringify(error.response?.data).  A parsed payload always   *)
(* serialises.  A stream object serialises or throws "Converting circular     *)
(* structure to JSON", depending on the object the HTTP client hands over     *)
(* (the raw incoming message refers to its socket and back).  A throw inside  *)
(* the catch block rejects the async handler; nothing handles the rejection,  *)
(* so the runtime ends the process ("crash") or only warns and the request is *)
(* never answered ("hang").                                                   *)
LogOutcomes(error) ==
    IF error.response # <<>> /\ error.response[1].isStream
    THEN {"logged", "crash", "hang"}
    ELSE {"logged"}

----------------------------------------------------------------------------
(* Inputs: what callers send and what the backend answers. *)

EmptyBody ==
    [model |-> <<>>, messages |-> <<>>, temperature |-> <<>>, max_tokens |-> <<>>,
     stream |-> <<>>]

Messages == << [role |-> "user", content |-> "Hello"] >>

Request(method, path, parse, body) ==
    [method |-> method, path |-> path, parse |-> parse, body |-> body]

CHAT_PATH == "/v1/chat/completions"

ChatBodies(models, temps, maxToks, streams) ==
    [model : models, messages : {<<Messages>>}, temperature : temps,
     max_tokens : maxToks, stream : streams]

(* parse: what express.json makes of the body: "ok", "malformed" (not JSON), *)
(* "too_large" (over the 100mb limit).                                        *)
OtherRequests ==
    { Request("GET", "/health", "ok", EmptyBody),
      Request("GET", "/v1/models", "ok", EmptyBody),
      Request("GET", CHAT_PATH, "ok", EmptyBody),
      Request("POST", "/v1/embeddings", "ok", EmptyBody),
      Request("POST", "/v1/embeddings", "malformed", EmptyBody),
      Request("POST", CHAT_PATH, "ok", EmptyBody),
      Request("POST", CHAT_PATH, "malformed", EmptyBody),
      Request("POST", CHAT_PATH, "too_large", EmptyBody) }

Inbound ==
    OtherRequests \cup
    { Request("POST", CHAT_PATH, "ok", b) :
        b \in ChatBodies({<<>>, <<"gpt-4">>, <<"gpt-4o">>, <<"my-model">>, <<"constructor">>},
                         {<<>>, <<0>>, <<12>>}, {<<>>, <<0>>, <<100>>},
                         {<<>>, <<FALSE>>, <<TRUE>>}) }

InboundSmall ==
    OtherRequests \cup
    { Request("POST", CHAT_PATH, "ok", b) :
        b \in ChatBodies({<<"gpt-4">>, <<"my-model">>}, {<<>>}, {<<>>},
                         {<<FALSE>>, <<TRUE>>}) }

Choice(index, message, finish_reason) ==
    [index |-> index, message |-> message, finish_reason |-> finish_reason]

ChoiceSamples ==
    { Choice(<<0>>, <<[role |-> <<"tool">>, content |-> <<"Hi there">>]>>, <<"length">>),
      Choice(<<1>>, <<>>, <<>>),
      Choice(<<2>>, <<[role |-> <<"">>, content |-> <<"">>]>>, <<"">>),
      Choice(<<>>, <<[role |-> <<"assistant">>, content |-> <<>>]>>, <<"stop">>) }

ChoiceSeqs(n) == UNION { [1..k -> ChoiceSamples] : k \in 0..n }

Usage == [prompt_tokens |-> 3, completion_tokens |-> 5, total_tokens |-> 8]

HttpReply(status, detail, choices, usage) ==
    [kind |-> "http", status |-> status, detail |-> detail, choices |-> choices,
     usage |-> usage, message |-> ""]

TransportFailure ==
    [kind |-> "transport", status |-> 0, detail |-> <<>>, choices |-> <<>>,
     usage |-> <<>>, message |-> "connect ECONNREFUSED"]

FailureReplies ==
    {TransportFailure} \cup
    { HttpReply(s, d, <<>>, <<>>) : s \in {429, 503}, d \in {<<>>, <<"Rate limit exceeded">>} }

(* Replies to a buffered call: a failure, or 200 with a JSON body. *)
BufferedReplies(n) ==
    FailureReplies \cup
    { HttpReply(200, <<>>, c, u) :
        c \in {<<>>} \cup { <<cs>> : cs \in ChoiceSeqs(n) }, u \in {<<>>, <<Usage>>} }

(* Replies to a streamed call: a failure, or 200 with an event stream. *)
StreamedReplies == FailureReplies \cup { HttpReply(200, <<>>, <<>>, <<>>) }

Chunks == {"data: a", "data: b"}

Is2xx(rp) == rp.kind = "http" /\ rp.status >= 200 /\ rp.status < 300

----------------------------------------------------------------------------
(* The state after app.listen. *)

InitOver(cs) ==
    /\ processUp = TRUE
    /\ MODEL_MAPPING = ModelMappingLiteral
    /\ phase = [c \in cs |-> "new"]
    /\ req = [c \in cs |-> <<>>]
    /\ nimRequest = [c \in cs |-> <<>>]
    /\ calls = [c \in cs |-> 0]
    /\ reply = [c \in cs |-> <<>>]
    /\ logThrew = [c \in cs |-> FALSE]
    /\ resp = [c \in cs |-> NoResponse]
    /\ resState = [c \in cs |-> "pending"]
    /\ endCalls = [c \in cs |-> 0]
    /\ srcState = [c \in cs |-> "none"]
    /\ srcBuf = [c \in cs |-> <<>>]
    /\ piped = [c \in cs |-> FALSE]
    /\ emitted = [c \in cs |-> <<>>]
    /\ received = [c \in cs |-> <<>>]

Init == InitOver(Callers)

InitConcurrent == InitOver(ConcurrentCallers)

----------------------------------------------------------------------------
(* Writing a response. *)

(* res.status(s).json(body): one complete response, ending res. *)
Respond(r, response) ==
    /\ resp' = [resp EXCEPT ![r] = response]
    /\ resState' = [resState EXCEPT ![r] = "ended"]
    /\ endCalls' = [endCalls EXCEPT ![r] = @ + 1]
    /\ phase' = [phase EXCEPT ![r] = "done"]

(* A request reaches the middleware chain. *)
Arrives(r, in) ==
    /\ processUp
    /\ phase[r] = "new"
    /\ req' = [req EXCEPT ![r] = <<in>>]

IsHealth(in) == in.method = "GET" /\ in.path = "/health"
IsListModels(in) == in.method = "GET" /\ in.path = "/v1/models"
IsChat(in) == in.method = "POST" /\ in.path = CHAT_PATH

(* Object.keys(MODEL_MAPPING), in insertion order. *)
ModelKeys ==
    <<"gpt-3.5-turbo", "gpt-4", "gpt-4-turbo", "gpt-4o", "gpt-4o-mini", "o1",
      "claude-3-opus", "claude-3-sonnet", "claude-3-haiku", "gemini-pro">>

----------------------------------------------------------------------------
(* Lines 10-12: express.json rejects a body it cannot parse (400) or that is *)
(* over the limit (413) with next(err), before any route is tried.  No error  *)
(* middleware is registered, so Express's default handler answers.            *)
BodyParserError(r, in) ==
    /\ Arrives(r, in)
    /\ in.parse # "ok"
    /\ Respond(r, [status |-> IF in.parse = "malformed" THEN 400 ELSE 413,
                   kind |-> "html", body |-> <<>>])
    /\ UNCHANGED <<processUp, MODEL_MAPPING, nimRequest, calls, reply, logThrew>>
    /\ UNCHANGED streamVars

(* Lines 33-40. *)
Health(r, in) ==
    /\ Arrives(r, in)
    /\ in.parse = "ok" /\ IsHealth(in)
    /\ Respond(r, [status |-> 200, kind |-> "json",
                   body |-> [status |-> "ok", service |-> "OpenAI to NVIDIA NIM Proxy"]])
    /\ UNCHANGED <<processUp, MODEL_MAPPING, nimRequest, calls, reply, logThrew>>
    /\ UNCHANGED streamVars

(* Lines 43-55. *)
ListModels(r, in) ==
    /\ Arrives(r, in)
    /\ in.parse = "ok" /\ IsListModels(in)
    /\ Respond(r, [status |-> 200, kind |-> "json",
                   body |-> [object |-> "list",
                             data |-> [i \in 1..Len(ModelKeys) |->
                                         [id |-> ModelKeys[i], object |-> "model",
                                          owned_by |-> "nvidia-nim-proxy"]]]])
    /\ UNCHANGED <<processUp, MODEL_MAPPING, nimRequest, calls, reply, logThrew>>
    /\ UNCHANGED streamVars

(* Lines 58-83: the handler up to the await of axios.post. *)
ChatCompletions(r, in) ==
    /\ Arrives(r, in)
    /\ in.parse = "ok" /\ IsChat(in)
    /\ nimRequest' = [nimRequest EXCEPT ![r] = <<BuildNimRequest(MODEL_MAPPING, in.body)>>]
    /\ calls' = [calls EXCEPT ![r] = @ + 1]
    /\ phase' = [phase EXCEPT ![r] = "awaiting"]
    /\ UNCHANGED <<processUp, MODEL_MAPPING, reply, logThrew, resp, resState, endCalls>>
    /\ UNCHANGED streamVars

(* Lines 146-154. *)
CatchAll(r, in) ==
    /\ Arrives(r, in)
    /\ in.parse = "ok" /\ ~IsHealth(in) /\ ~IsListModels(in) /\ ~IsChat(in)
    /\ Respond(r, [status |-> NOT_FOUND, kind |-> "error",
                   body |-> ErrorBody("Endpoint " \o in.path \o " not found", NOT_FOUND)])
    /\ UNCHANGED <<processUp, MODEL_MAPPING, nimRequest, calls, reply, logThrew>>
    /\ UNCHANGED streamVars

----------------------------------------------------------------------------
(* The handler's continuation once axios.post settles. *)

Settles(r, rp) ==
    /\ processUp
    /\ phase[r] = "awaiting"
    /\ reply' = [reply EXCEPT ![r] = <<rp>>]

(* Lines 122-142. *)
Catch(r, error) ==
    \E outcome \in LogOutcomes(error) :
        IF outcome = "logged"
        THEN /\ Respond(r, CatchResponse(error))
             /\ UNCHANGED <<processUp, logThrew>>
        ELSE /\ logThrew' = [logThrew EXCEPT ![r] = TRUE]
             /\ processUp' = (outcome # "crash")
             /\ phase' = [phase EXCEPT ![r] = "hung"]
             /\ UNCHANGED <<resp, resState, endCalls>>

(* Lines 97-120, and the catch block when line 104 throws. *)
BufferedResponse(r, rp) ==
    /\ Settles(r, rp)
    /\ ~WantsStream(req[r][1].body) /\ Is2xx(rp)
    /\ IF rp.choices = <<>>
       THEN Catch(r, TypeErrorNoChoices)
       ELSE /\ Respond(r, [status |-> 200, kind |-> "json",
                           body |-> openaiResponse(req[r][1].body, rp)])
            /\ UNCHANGED <<processUp, logThrew>>
    /\ UNCHANGED <<MODEL_MAPPING, req, nimRequest, calls>>
    /\ UNCHANGED streamVars

(* Lines 85-96: headers, pipe, and the error listener. *)
StreamResponse(r, rp) ==
    /\ Settles(r, rp)
    /\ WantsStream(req[r][1].body) /\ Is2xx(rp)
    /\ resp' = [resp EXCEPT ![r] = [status |-> 200, kind |-> "stream", body |-> <<>>]]
    /\ resState' = [resState EXCEPT ![r] = "open"]
    /\ srcState' = [srcState EXCEPT ![r] = "open"]
    /\ piped' = [piped EXCEPT ![r] = TRUE]
    /\ phase' = [phase EXCEPT ![r] = "streaming"]
    /\ UNCHANGED <<processUp, MODEL_MAPPING, req, nimRequest, calls, logThrew, endCalls,
                   srcBuf, emitted, received>>

(* Lines 77-83 rejecting, then lines 122-142. *)
AxiosRejected(r, rp) ==
    /\ Settles(r, rp)
    /\ ~Is2xx(rp)
    /\ Catch(r, AxiosError(rp, WantsStream(req[r][1].body)))
    /\ UNCHANGED <<MODEL_MAPPING, req, nimRequest, calls>>
    /\ UNCHANGED streamVars

----------------------------------------------------------------------------
(* The relay, line 91: response.data.pipe(res), and the listener of 93-96. *)

Relaying(r) == processUp /\ phase[r] = "streaming"

(* The backend writes a chunk; the readable buffers it. *)
BackendEmit(r, chunk) ==
    /\ Relaying(r)
    /\ srcState[r] = "open"
    /\ Len(emitted[r]) < MaxChunks
    /\ emitted' = [emitted EXCEPT ![r] = Append(@, chunk)]
    /\ srcBuf' = [srcBuf EXCEPT ![r] = Append(@, chunk)]
    /\ UNCHANGED <<processUp, MODEL_MAPPING, srcState, piped, received>>
    /\ UNCHANGED reqVars

(* The backend closes the stream cleanly. *)
BackendEnd(r) ==
    /\ Relaying(r)
    /\ srcState[r] = "open"
    /\ srcState' = [srcState EXCEPT ![r] = "eof"]
    /\ UNCHANGED <<processUp, MODEL_MAPPING, srcBuf, piped, emitted, received>>
    /\ UNCHANGED reqVars

(* The relay writing each chunk twice. *)
PipeDataTwice(r) ==
    /\ Relaying(r)
    /\ piped[r] /\ srcBuf[r] # <<>>
    /\ received' = [received EXCEPT ![r] = @ \o <<Head(srcBuf[r]), Head(srcBuf[r])>>]
    /\ srcBuf' = [srcBuf EXCEPT ![r] = Tail(@)]
    /\ UNCHANGED <<processUp, MODEL_MAPPING, srcState, piped, emitted>>
    /\ UNCHANGED reqVars

(* pipe's 'data' listener: the oldest buffered chunk is written to res. *)
PipeData(r) ==
    /\ Relaying(r)
    /\ piped[r] /\ srcBuf[r] # <<>>
    /\ received' = [received EXCEPT ![r] = Append(@, Head(srcBuf[r]))]
    /\ srcBuf' = [srcBuf EXCEPT ![r] = Tail(@)]
    /\ UNCHANGED <<processUp, MODEL_MAPPING, srcState, piped, emitted>>
    /\ UNCHANGED reqVars

(* pipe's 'end' listener: once the buffer is drained, res.end(). *)
PipeEnd(r) ==
    /\ Relaying(r)
    /\ piped[r] /\ srcState[r] = "eof" /\ srcBuf[r] = <<>>
    /\ srcState' = [srcState EXCEPT ![r] = "ended"]
    /\ piped' = [piped EXCEPT ![r] = FALSE]
    /\ resState' = [resState EXCEPT ![r] = "ended"]
    /\ endCalls' = [endCalls EXCEPT ![r] = @ + 1]
    /\ phase' = [phase EXCEPT ![r] = "done"]
    /\ UNCHANGED <<processUp, MODEL_MAPPING, req, nimRequest, calls, reply, logThrew, resp,
                   srcBuf, emitted, received>>

(* Lines 93-96 without the res.end() of line 95. *)
StreamErrorNoEnd(r) ==
    /\ Relaying(r)
    /\ srcState[r] = "open"
    /\ srcState' = [srcState EXCEPT ![r] = "errored"]
    /\ srcBuf' = [srcBuf EXCEPT ![r] = <<>>]
    /\ piped' = [piped EXCEPT ![r] = FALSE]
    /\ phase' = [phase EXCEPT ![r] = "done"]
    /\ UNCHANGED <<processUp, MODEL_MAPPING, req, nimRequest, calls, reply, logThrew, resp,
                   resState, endCalls, emitted, received>>

(* The backend stream fails: the readable is destroyed with what it buffered, *)
(* and the listener of lines 93-96 ends res.                                   *)
StreamError(r) ==
    /\ Relaying(r)
    /\ srcState[r] = "open"
    /\ srcState' = [srcState EXCEPT ![r] = "errored"]
    /\ srcBuf' = [srcBuf EXCEPT ![r] = <<>>]
    /\ piped' = [piped EXCEPT ![r] = FALSE]
    /\ resState' = [resState EXCEPT ![r] = IF @ = "open" THEN "ended" ELSE @]
    /\ endCalls' = [endCalls EXCEPT ![r] = @ + 1]
    /\ phase' = [phase EXCEPT ![r] = "done"]
    /\ UNCHANGED <<processUp, MODEL_MAPPING, req, nimRequest, calls, reply, logThrew, resp,
                   emitted, received>>

(* The caller goes away mid-relay: res closes and pipe unpipes the source,   *)
(* which stays open and paused.  server.js listens for no close event.        *)
CallerDisconnect(r) ==
    /\ Relaying(r)
    /\ resState[r] = "open"
    /\ resState' = [resState EXCEPT ![r] = "closed"]
    /\ piped' = [piped EXCEPT ![r] = FALSE]
    /\ UNCHANGED <<processUp, MODEL_MAPPING, req, nimRequest, calls, reply, logThrew, resp,
                   endCalls, phase, srcState, srcBuf, emitted, received>>

----------------------------------------------------------------------------
(* One step of caller r, with the requests and replies drawn from the sets.  *)

Step(r, inbound, buffered, streamed) ==
    \/ \E in \in inbound :
         \/ BodyParserError(r, in)
         \/ Health(r, in)
         \/ ListModels(r, in)
         \/ ChatCompletions(r, in)
         \/ CatchAll(r, in)
    \/ \E rp \in buffered : BufferedResponse(r, rp)
    \/ \E rp \in streamed : StreamResponse(r, rp)
    \/ \E rp \in buffered \cup streamed : AxiosRejected(r, rp)
    \/ \E chunk \in Chunks : BackendEmit(r, chunk)
    \/ BackendEnd(r)
    \/ PipeData(r)
    \/ PipeEnd(r)
    \/ StreamError(r)
    \/ CallerDisconnect(r)

Next == \E r \in Callers : Step(r, Inbound, BufferedReplies(MaxChoices), StreamedReplies)

NextConcurrent ==
    \E r \in ConcurrentCallers : Step(r, InboundSmall, BufferedReplies(1), StreamedReplies)

Spec == Init /\ [][Next]_vars

(* The event loop runs every ready callback, and the backend keeps sending   *)
(* until it closes; errors and disconnects are not bound to happen.           *)
Fairness ==
    \A r \in Callers :
        /\ WF_vars(PipeData(r))
        /\ WF_vars(PipeEnd(r))
        /\ WF_vars(BackendEnd(r))

FairSpec == Spec /\ Fairness

SpecConcurrent == InitConcurrent /\ [][NextConcurrent]_vars

----------------------------------------------------------------------------
(* Shorthands for the properties. *)

AllCallers == DOMAIN phase

Body(r) == req[r][1].body

(* r posted a parsed body to the chat route, so the handler ran. *)
ChatCall(r) == req[r] # <<>> /\ req[r][1].parse = "ok" /\ IsChat(req[r][1])

(* r got the translated response of the buffered path. *)
Translated(r) == ChatCall(r) /\ resp[r].kind = "json"

(* The backend answered r's call with a status outside 2xx. *)
UpstreamError(r) == reply[r] # <<>> /\ reply[r][1].kind = "http" /\ ~Is2xx(reply[r][1])

IsPrefix(s, t) == Len(s) <= Len(t) /\ SubSeq(t, 1, Len(s)) = s

Supplied(choice, f) == choice.message # <<>> /\ choice.message[1][f] # <<>>

----------------------------------------------------------------------------
(* C1: the model posted to the backend is MODEL_MAPPING[model] when the      *)
(* requested model is a key of the mapping and the backend name of the       *)
(* 'gpt-4o' entry for every other requested model, an absent one included;  *)
(* every parsed chat request is forwarded, none is rejected for its model.   *)
C1_OutboundModel ==
    \A r \in AllCallers :
        ChatCall(r) =>
            /\ nimRequest[r] # <<>>
            /\ nimRequest[r][1].model =
                 IF Body(r).model # <<>> /\ Body(r).model[1] \in DOMAIN MODEL_MAPPING
                 THEN <<"string", MODEL_MAPPING[Body(r).model[1]]>>
                 ELSE <<"string", MODEL_MAPPING["gpt-4o"]>>

(* C2: the model field of every translated (buffered, successful) response   *)
(* is the model the caller sent, recognised or not, and is taken from the    *)
(* inbound request, not from the request posted to the backend.              *)
C2_ResponseModel ==
    \A r \in AllCallers :
        Translated(r) => resp[r].body.model = Body(r).model

(* C2's case: an unrecognised name went out as the default backend name and  *)
(* came back as the caller's own.                                            *)
C2_Witness ==
    \E r \in AllCallers :
        /\ Translated(r)
        /\ Body(r).model = <<"my-model">>
        /\ nimRequest[r][1].model = <<"string", "deepseek-ai/deepseek-v3.1">>
        /\ resp[r].body.model = <<"my-model">>

(* C3: temperature, max_tokens and stream of the posted request equal the    *)
(* inbound value whenever the field is present (0 and false included) and    *)
(* the defaults 0.7, 2048 and false when it is absent.                       *)
C3_Defaults ==
    \A r \in AllCallers :
        nimRequest[r] # <<>> =>
            /\ nimRequest[r][1].temperature =
                 IF Body(r).temperature = <<>> THEN DEFAULT_TEMPERATURE
                 ELSE Body(r).temperature[1]
            /\ nimRequest[r][1].max_tokens =
                 IF Body(r).max_tokens = <<>> THEN DEFAULT_MAX_TOKENS
                 ELSE Body(r).max_tokens[1]
            /\ nimRequest[r][1].stream =
                 IF Body(r).stream = <<>> THEN FALSE ELSE Body(r).stream[1]

(* C4: the translated response has one choice per backend choice, in order   *)
(* and with the backend's index; role, content and finish_reason are the     *)
(* backend's when it supplied them and 'assistant', '' and 'stop' when it    *)
(* omitted them; usage is the backend's, or all zeros when it sent none.     *)
C4_Translation ==
    \A r \in AllCallers :
        Translated(r) =>
            LET back == reply[r][1].choices[1]
                out  == resp[r].body.choices
            IN  /\ Len(out) = Len(back)
                /\ \A i \in 1..Len(back) :
                     /\ out[i].index = back[i].index
                     /\ out[i].message.role =
                          IF Supplied(back[i], "role") THEN back[i].message[1].role[1]
                          ELSE "assistant"
                     /\ out[i].message.content =
                          IF Supplied(back[i], "content") THEN back[i].message[1].content[1]
                          ELSE ""
                     /\ out[i].finish_reason =
                          IF back[i].finish_reason # <<>> THEN back[i].finish_reason[1]
                          ELSE "stop"
                /\ resp[r].body.usage =
                     IF reply[r][1].usage # <<>> THEN reply[r][1].usage[1] ELSE ZeroUsage

(* C5: when the backend answers a chat call with a status S outside 2xx,     *)
(* buffered or streamed, the caller gets exactly one response, with HTTP     *)
(* status S, error.code S and error.message the backend's detail when the    *)
(* payload has one (a generic message otherwise); the call is made once.     *)
C5_UpstreamError ==
    \A r \in AllCallers :
        UpstreamError(r) =>
            /\ resp[r].kind = "error"
            /\ resp[r].status = reply[r][1].status
            /\ resp[r].body.error.code = reply[r][1].status
            /\ resp[r].body.error.message =
                 IF reply[r][1].detail # <<>> THEN reply[r][1].detail[1]
                 ELSE "Request failed with status code " \o ToString(reply[r][1].status)
            /\ endCalls[r] = 1
            /\ calls[r] = 1

(* C6: every error response has the body {error: {message, type, code}} with *)
(* the HTTP status equal to error.code; a transport failure gives 500; a     *)
(* request to an unregistered route gives 404 naming the path.               *)
C6_ErrorShape ==
    \A r \in AllCallers :
        /\ resp[r].status >= 400 =>
              /\ resp[r].kind = "error"
              /\ resp[r].body.error.code = resp[r].status
              /\ resp[r].body.error.type = "invalid_request_error"
        /\ (reply[r] # <<>> /\ reply[r][1].kind = "transport") =>
              (resp[r].kind = "error" /\ resp[r].status = 500)
        /\ (req[r] # <<>> /\ ~IsHealth(req[r][1]) /\ ~IsListModels(req[r][1])
              /\ ~IsChat(req[r][1])) =>
              /\ resp[r].kind = "error"
              /\ resp[r].status = 404
              /\ resp[r].body.error.message = "Endpoint " \o req[r][1].path \o " not found"

(* C7: in streaming mode the caller receives the backend's chunks in order,  *)
(* unmodified, none dropped, duplicated or added; once the backend has       *)
(* closed cleanly after c1..cN the caller has received exactly c1..cN and    *)
(* the response is ended, once, with nothing of the proxy's own in it.       *)
C7_StreamRelay ==
    \A r \in AllCallers :
        /\ IsPrefix(received[r], emitted[r])
        /\ srcState[r] = "ended" =>
              /\ received[r] = emitted[r]
              /\ resState[r] = "ended"
              /\ endCalls[r] = 1
              /\ resp[r] = [status |-> 200, kind |-> "stream", body |-> <<>>]

(* C7's case: two different chunks were relayed and the stream then closed.  *)
C7_Witness ==
    \E r \in AllCallers :
        /\ srcState[r] = "ended"
        /\ Len(received[r]) >= 2
        /\ received[r][1] # received[r][2]
        /\ received[r] = emitted[r]

(* C8, the state after a backend stream error: the response is ended, by one *)
(* res.end(), the caller holds a prefix of what the backend emitted, nothing *)
(* is left to relay, and the response is still the 200 event stream.         *)
C8_AfterStreamError ==
    \A r \in AllCallers :
        srcState[r] = "errored" =>
            /\ resState[r] \in {"ended", "closed"}
            /\ endCalls[r] = 1
            /\ IsPrefix(received[r], emitted[r])
            /\ ~piped[r] /\ srcBuf[r] = <<>>
            /\ resp[r] = [status |-> 200, kind |-> "stream", body |-> <<>>]

(* C8, the steps after a backend stream error: nothing more is written.      *)
C8_NothingAfterError ==
    \A r \in AllCallers :
        srcState[r] = "errored" =>
            /\ received'[r] = received[r]
            /\ resp'[r] = resp[r]
            /\ endCalls'[r] = endCalls[r]
            /\ resState'[r] = resState[r]

(* C8: if the backend stream raises an error after k >= 0 chunks have been   *)
(* relayed, the caller-facing response is ended exactly once, the caller has *)
(* a prefix of the emitted chunks and gets nothing after the error, and no   *)
(* error object or second response is written.                               *)
C8_StreamError == []C8_AfterStreamError /\ [][C8_NothingAfterError]_vars

(* C8's case: the error came after one chunk was relayed and one more was    *)
(* still buffered.                                                           *)
C8_Witness ==
    \E r \in AllCallers :
        /\ srcState[r] = "errored"
        /\ Len(received[r]) = 1
        /\ Len(emitted[r]) = 2
        /\ resState[r] = "ended"

(* C9: a caller disconnect during a streaming relay is eventually followed   *)
(* by the backend stream being closed or destroyed.                          *)
C9_BackendAborted ==
    \A r \in Callers :
        (resState[r] = "closed") ~> (srcState[r] \in {"ended", "errored"})

(* C10: requests are independent: a handler awaiting the backend does not    *)
(* keep another request from being accepted; two requests that are equal and *)
(* get equal replies get equal responses, whatever ran beside them; the      *)
(* mapping is never changed; no request stops the process.                   *)
C10_Independent ==
    /\ processUp
    /\ MODEL_MAPPING = ModelMappingLiteral
    /\ \A r1, r2 \in AllCallers :
         /\ (phase[r1] = "awaiting" /\ phase[r2] = "new") =>
               ENABLED (\E in \in InboundSmall : Health(r2, in))
         /\ (phase[r1] = "done" /\ phase[r2] = "done" /\ req[r1] = req[r2]
               /\ reply[r1] = reply[r2] /\ ~WantsStream(Body(r1))) =>
               resp[r1] = resp[r2]

====
